---------------------------- MODULE Spec2Model ----------------------------
(***************************************************************************)
(* A model of app.py, the Streamlit sales dashboard.                       *)
(*                                                                         *)
(* Streamlit runs main() from top to bottom once when a page is opened and *)
(* once more after every widget change.  The state that survives a run is  *)
(* the st.cache_data entry of load_data (process wide) and the widget      *)
(* values of the browser session.  Everything else is recomputed by the    *)
(* run and handed to the page.                                             *)
(*                                                                         *)
(* Modelling choices:                                                      *)
(*  - a DataFrame is a sequence of rows (records keyed by column name);    *)
(*  - dates are day numbers 1..MaxDay;                                     *)
(*  - SALES amounts are whole numbers, sums are exact;                     *)
(*  - a multiselect's value is the set of the selected options: the code   *)
(*    reads it only through its truth value and through isin;              *)
(*  - sort_values uses pandas' default kind, quicksort, which is not       *)
(*    stable: the order of rows with equal SALES is not determined by the  *)
(*    code, and every order is a possible outcome;                         *)
(*  - a Python value handed to st.metric is a record carrying its type.    *)
(***************************************************************************)
EXTENDS Integers, Sequences, FiniteSets, TLC

\* ---------------------------------------------------------------- bounds
\* Days of the model's calendar: 1..MaxDay.
MaxDay == 4
\* Rows of the largest generated data set.
MaxRows == 12

\* ------------------------------------------------------- program constants
\* .head(10) of the two ranked tables.
TopN == 10
\* total_sales / 1000000 and total_sales / total_orders / 1000.
Million == 1000000
Thousand == 1000

\* ------------------------------------------------------------ the CSV file
\* Category values, each pool listed in ascending (Python str) order.
CustomerNames ==
    << "Alpha Cognac", "Baane Mini Imports", "Cruz and Sons", "Danish Wholesale",
       "Euro Shopping", "FunGiftIdeas", "Gift Depot", "Handji Gifts",
       "Land of Toys", "Mini Wheels", "Online Diecast" >>
ProductLines == << "Classic Cars", "Trucks", "Vans" >>
ProductCodes == << "S10_1678", "S12_1099", "S18_2248", "S24_2000" >>
Countries == << "France", "USA" >>
Statuses == << "Cancelled", "Shipped" >>

Row(o, d, s, c, p, l, k, t) ==
    [ ORDERNUMBER |-> o, ORDERDATE |-> d, SALES |-> s, CUSTOMERNAME |-> c,
      PRODUCTCODE |-> p, PRODUCTLINE |-> l, COUNTRY |-> k, STATUS |-> t ]

\* A three-row table shaped like the one of the specification's scenarios:
\* two customers, "Vans" and "Trucks", on days 2, 3 and 4.
ScenarioTable ==
    << Row(10100, 2, 4000, "Alpha Cognac", "S24_2000", "Vans", "France", "Shipped"),
       Row(10101, 3, 8000, "Baane Mini Imports", "S12_1099", "Trucks", "USA", "Shipped"),
       Row(10102, 4, 2000, "Alpha Cognac", "S24_2000", "Vans", "France", "Shipped") >>

\* A generated table of n rows: two rows per order, both on the order's day;
\* customers, product lines and codes interleaved so that row order is not
\* key order; amounts chosen so that a few groups' sums are equal.
GenRow(i) ==
    Row(10200 + ((i + 1) \div 2),
        1 + (((i - 1) \div 2) % MaxDay),
        2000 * (1 + ((i * 5) % 12)),
        CustomerNames[1 + (((i - 1) * 4) % Len(CustomerNames))],
        ProductCodes[1 + (i % Len(ProductCodes))],
        ProductLines[1 + (i % Len(ProductLines))],
        Countries[1 + (i % Len(Countries))],
        Statuses[1 + ((i \div 3) % Len(Statuses))])

GenTable(n) == [ i \in 1..n |-> GenRow(i) ]

\* The revisions of the remote CSV file, oldest first.
Revisions == << ScenarioTable, GenTable(MaxRows), GenTable(1) >>


\* ------------------------------------------------------- pandas primitives
Min(a, b) == IF a < b THEN a ELSE b

\* data[col].sum(): 0 for an empty column.
RECURSIVE SumSales(_)
SumSales(data) ==
    IF data = << >> THEN 0 ELSE Head(data).SALES + SumSales(Tail(data))

\* data[col].unique(), as a set.
Unique(data, col) == { data[i][col] : i \in DOMAIN data }

\* data[col].nunique()
NUnique(data, col) == Cardinality(Unique(data, col))

\* data['ORDERDATE'].min() and .max() of a table with at least one row.
MinDate(data) ==
    CHOOSE d \in Unique(data, "ORDERDATE") :
        \A e \in Unique(data, "ORDERDATE") : d <= e
MaxDate(data) ==
    CHOOSE d \in Unique(data, "ORDERDATE") :
        \A e \in Unique(data, "ORDERDATE") : e <= d

\* A row's group key under groupby(by): the column's value, or the tuple of
\* the columns' values when by lists several.
KeyOf(r, by) ==
    IF Len(by) = 1 THEN r[by[1]] ELSE [ j \in DOMAIN by |-> r[by[j]] ]

\* groupby(by, sort=False): the keys in the order of their first row.
GroupBySumUnsorted(data, by, pool) ==
    LET first == SelectSeq([ i \in DOMAIN data |-> i ],
                           LAMBDA i : \A k \in 1..(i - 1) :
                                          KeyOf(data[k], by) # KeyOf(data[i], by))
    IN  [ j \in DOMAIN first |->
            [ key |-> KeyOf(data[first[j]], by),
              SALES |->
                  SumSales(SelectSeq(data, LAMBDA r :
                                               KeyOf(r, by) = KeyOf(data[first[j]], by))) ] ]

\* data.groupby(by)['SALES'].sum().reset_index(): one row per key present,
\* keys ascending (groupby's sort=True).  pool lists the possible keys in
\* ascending order.
GroupBySum(data, by, pool) ==
    LET present ==
            SelectSeq(pool, LAMBDA k : \E i \in DOMAIN data : KeyOf(data[i], by) = k)
    IN  [ j \in DOMAIN present |->
            [ key |-> present[j],
              SALES |->
                  SumSales(SelectSeq(data, LAMBDA r : KeyOf(r, by) = present[j])) ] ]

\* frame.sort_values('SALES', ascending=False): every order of the rows that
\* is descending by SALES.  The default kind, quicksort, is not stable, so
\* rows with equal SALES may come out in any order.
RECURSIVE DescendingOrders(_, _)
DescendingOrders(frame, left) ==
    IF left = {} THEN { << >> }
    ELSE LET top == { i \in left : \A j \in left : frame[j].SALES <= frame[i].SALES }
         IN  UNION { { << frame[i] >> \o rest :
                         rest \in DescendingOrders(frame, left \ {i}) } : i \in top }

\* The frame left in the order groupby gave it (the sort left out).
SortValuesOmitted(frame) == { frame }

SortValuesDesc(frame) == DescendingOrders(frame, DOMAIN frame)

\* frame.head(n)
HeadRows(frame, n) == SubSeq(frame, 1, Min(n, Len(frame)))

\* -------------------------------------------------------- Python values
PyStr(chars) == [ type |-> "str", text |-> chars ]
PyInt(n) == [ type |-> "int", val |-> n ]

DigitChars == << "0", "1", "2", "3", "4", "5", "6", "7", "8", "9" >>

\* str(n) for a natural number n, as its sequence of characters.
RECURSIVE Decimal(_)
Decimal(n) ==
    IF n < 10 THEN << DigitChars[n + 1] >>
    ELSE Decimal(n \div 10) \o << DigitChars[(n % 10) + 1] >>

\* f"{num / den:.2f}" for num >= 0, den > 0: the quotient rounded to two
\* decimals.  (Every SALES amount of the model is a multiple of 2000, so no
\* quotient formatted here lies exactly between two roundings.)
FormatFixed2(num, den) ==
    LET h == ((200 * num) + den) \div (2 * den)
    IN  Decimal(h \div 100) \o << "." >>
          \o << DigitChars[((h % 100) \div 10) + 1], DigitChars[(h % 10) + 1] >>

\* f"{total / count:.2f}" where total is a numpy float64: a zero divisor
\* raises nothing, the quotient is nan (0/0) or inf (x/0), and so is every
\* further quotient of it.
FormatQuotient2(total, count, scale) ==
    IF count = 0
    THEN IF total = 0 THEN << "n", "a", "n" >> ELSE << "i", "n", "f" >>
    ELSE FormatFixed2(total, count * scale)

\* ---------------------------------------------------------------- app.py
\* load_data without its cache: every call runs the body.
load_data_uncached(cached, remoteTable) ==
    [ data |-> remoteTable, fetched |-> TRUE ]

\* load_data under @st.cache_data: a hit returns the cached table and does
\* not run the body; a miss runs the body (read_csv of the remote file) and
\* stores what it returns.  cached is << >> or << table >>.
load_data(cached, remoteTable) ==
    IF cached # << >>
    THEN [ data |-> cached[1], fetched |-> FALSE ]
    ELSE [ data |-> remoteTable, fetched |-> TRUE ]

\* filter_data without the test of its list: an empty list keeps no row.
filter_data_unguarded(data, column, values) ==
    SelectSeq(data, LAMBDA r : r[column] \in values)

\* filter_data(data, column, values)
filter_data(data, column, values) ==
    IF values # {}
    THEN SelectSeq(data, LAMBDA r : r[column] \in values)
    ELSE data

\* calculate_kpis(data): [sales_in_m, total_orders, average_sales_per_order,
\* unique_customers].  (@st.cache_data on a function of its argument alone
\* changes no result.)
calculate_kpis(data) ==
    LET total_sales == SumSales(data)
        sales_in_m == PyStr(FormatFixed2(total_sales, Million) \o << "M" >>)
        total_orders == NUnique(data, "ORDERNUMBER")
        average_sales_per_order ==
            PyStr(FormatQuotient2(total_sales, total_orders, Thousand) \o << "K" >>)
        unique_customers == NUnique(data, "CUSTOMERNAME")
    IN  << sales_in_m, PyInt(total_orders), average_sales_per_order,
           PyInt(unique_customers) >>


\* The first day a date_input without min_value offers (Streamlit's default,
\* ten years before its value): the first day of the model's calendar.
FirstDay == 1

\* st.sidebar.date_input(label, value, min_value, max_value) on a re-run.
\* prev is << >> or << the widget as the previous run of the session left
\* it >>.  A widget called with the arguments of the previous run keeps the
\* value the user gave it; called with other arguments it is a new widget
\* and holds its default.
date_input(prev, value, min_value, max_value) ==
    LET kept == /\ prev # << >>
                /\ prev[1].value = value
                /\ prev[1].min_value = min_value
                /\ prev[1].max_value = max_value
    IN  [ value |-> value, min_value |-> min_value, max_value |-> max_value,
          state |-> IF kept THEN prev[1].state ELSE value ]

\* st.sidebar.multiselect(label, options, default) and st.checkbox(label,
\* value): the session's value, the default in a new session.
widget_value(prev, field, default) ==
    IF prev # << >> THEN prev[1][field] ELSE default

\* The names bound in display_sidebar's frame when line 64 runs.
LocalsAtLine64 == { "data" }

\* display_sidebar(data): the widgets of this run.  prev is << >> in a new
\* session, else << the widgets of the session's previous run >>.
display_sidebar(data, prev) ==
    LET end_date0 ==
            IF "end_date" \notin LocalsAtLine64 THEN MaxDate(data) ELSE FirstDay
        start == date_input(IF prev # << >> THEN << prev[1].start >> ELSE << >>,
                            MinDate(data), FirstDay, end_date0)
        end == date_input(IF prev # << >> THEN << prev[1].end >> ELSE << >>,
                          end_date0, start.state, MaxDate(data))
    IN  [ start |-> start,
          end |-> end,
          product_lines |->
              widget_value(prev, "product_lines", Unique(data, "PRODUCTLINE")),
          countries |-> widget_value(prev, "countries", {}),
          statuses |-> widget_value(prev, "statuses", {}),
          combine |-> widget_value(prev, "combine", TRUE) ]

\* px.area(data, x='ORDERDATE', y='SALES'[, color='PRODUCTLINE']): the frame's
\* rows as points, in row order; one trace, or one per product line.
Points(data) == [ i \in DOMAIN data |-> << data[i].ORDERDATE, data[i].SALES >> ]

area(data, combine_product_lines) ==
    IF combine_product_lines
    THEN { [ name |-> "", points |-> Points(data) ] }
    ELSE { [ name |-> l,
             points |-> Points(SelectSeq(data, LAMBDA r : r.PRODUCTLINE = l)) ] :
           l \in Unique(data, "PRODUCTLINE") }

\* (PRODUCTCODE, PRODUCTLINE) pairs in ascending order.
ProductKeys ==
    [ k \in 1..(Len(ProductCodes) * Len(ProductLines)) |->
        << ProductCodes[1 + ((k - 1) \div Len(ProductLines))],
           ProductLines[1 + ((k - 1) % Len(ProductLines))] >> ]

\* display_charts(data): what it hands to st.plotly_chart and st.write.
display_charts(data, combine_product_lines) ==
    LET by_customer == GroupBySum(data, << "CUSTOMERNAME" >>, CustomerNames)
        by_product ==
            GroupBySum(data, << "PRODUCTCODE", "PRODUCTLINE" >>, ProductKeys)
        total_sales_by_product_line ==
            GroupBySum(data, << "PRODUCTLINE" >>, ProductLines)
        fig == area(data, combine_product_lines)
    IN  { [ fig |-> fig,
            top_customers |-> HeadRows(c, TopN),
            top_products |-> HeadRows(p, TopN),
            total_sales_by_product_line |-> total_sales_by_product_line ] :
          c \in SortValuesDesc(by_customer), p \in SortValuesDesc(by_product) }

\* The date filter with its upper comparison strict.
date_range_open_end(data, start_date, end_date) ==
    SelectSeq(data, LAMBDA r : r.ORDERDATE >= start_date /\ r.ORDERDATE < end_date)

\* The date filter of main (line 152).
date_range(data, start_date, end_date) ==
    SelectSeq(data, LAMBDA r : r.ORDERDATE >= start_date /\ r.ORDERDATE <= end_date)

\* main() from line 147 on, given the table load_data returned and the
\* widgets of this run: every page the run can render.
main(data, w) ==
    LET start_date == w.start.state
        end_date == w.end.state
        by_date == date_range(data, start_date, end_date)
        by_product_line == filter_data(by_date, "PRODUCTLINE", w.product_lines)
        by_country == filter_data(by_product_line, "COUNTRY", w.countries)
        filtered_data == filter_data(by_country, "STATUS", w.statuses)
        kpis == calculate_kpis(filtered_data)
    IN  { [ data |-> data,
            start_date |-> start_date,
            end_date |-> end_date,
            by_date |-> by_date,
            by_product_line |-> by_product_line,
            by_country |-> by_country,
            filtered_data |-> filtered_data,
            kpis |-> kpis,
            charts |-> c ] :
          c \in display_charts(filtered_data, w.combine) }

\* The filters applied to the cached frame itself.
data_after_main_in_place(data, filtered_data) == filtered_data

\* The cached table once main has run on it: main filters a copy
\* (data.copy(), line 149) and every step binds filtered_data to a new
\* frame, so the table load_data holds is the one it held.
data_after_main(data, filtered_data) == data

\* ------------------------------------------------------------ the system
VARIABLES
    remote,     \* the revision of the CSV file the URL serves now
    cache,      \* load_data's st.cache_data entry: << >> or << table >>
    fetches,    \* read_csv calls that returned, since the process started
    session,    \* << >> or << the widgets of the session's last run >>
    rendered,   \* << >> or << the page the last run rendered >>
    failed      \* the last run ended in load_data's exception

vars == << remote, cache, fetches, session, rendered, failed >>

Init ==
    /\ remote = 1
    /\ cache = << >>
    /\ fetches = 0
    /\ session = << >>
    /\ rendered = << >>
    /\ failed = FALSE

\* One run of main() that load_data does not fail, from the widgets prev.
RunMain(prev) ==
    LET ld == load_data(cache, Revisions[remote])
        w == display_sidebar(ld.data, prev)
    IN  \E page \in main(ld.data, w) :
            /\ cache' = << data_after_main(ld.data, page.filtered_data) >>
            /\ fetches' = IF ld.fetched THEN fetches + 1 ELSE fetches
            /\ session' = << w >>
            /\ rendered' = << page >>
            /\ failed' = FALSE
            /\ remote' = remote

\* A browser opens (or reloads) the page: a new session's first run.
OpenPage == RunMain(<< >>)

\* A run in which read_csv raises: nothing is cached, nothing is rendered.
FetchFails ==
    /\ load_data(cache, Revisions[remote]).fetched
    /\ failed' = TRUE
    /\ rendered' = << >>
    /\ session' = << >>
    /\ UNCHANGED << remote, cache, fetches >>

\* The user picks a start date the control offers; the script re-runs.
SetStartDate ==
    /\ session # << >>
    /\ \E d \in session[1].start.min_value .. session[1].start.max_value :
          /\ d # session[1].start.state
          /\ RunMain(<< [ session[1] EXCEPT !.start.state = d ] >>)

\* The user picks an end date the control offers; the script re-runs.
SetEndDate ==
    /\ session # << >>
    /\ \E d \in session[1].end.min_value .. session[1].end.max_value :
          /\ d # session[1].end.state
          /\ RunMain(<< [ session[1] EXCEPT !.end.state = d ] >>)

Toggle(set, x) == IF x \in set THEN set \ {x} ELSE set \cup {x}

\* The user adds or removes one option of a multiselect; the script re-runs.
SelectProductLine ==
    /\ session # << >>
    /\ \E l \in Unique(cache[1], "PRODUCTLINE") :
          RunMain(<< [ session[1] EXCEPT
                         !.product_lines = Toggle(@, l) ] >>)

SelectCountry ==
    /\ session # << >>
    /\ \E c \in Unique(cache[1], "COUNTRY") :
          RunMain(<< [ session[1] EXCEPT !.countries = Toggle(@, c) ] >>)

SelectStatus ==
    /\ session # << >>
    /\ \E t \in Unique(cache[1], "STATUS") :
          RunMain(<< [ session[1] EXCEPT !.statuses = Toggle(@, t) ] >>)

\* The user flips "Combine Product Lines"; the script re-runs.
ToggleCombine ==
    /\ session # << >>
    /\ RunMain(<< [ session[1] EXCEPT !.combine = ~@ ] >>)

\* The file behind the URL is replaced by its next revision.
RemoteUpdated ==
    /\ remote < Len(Revisions)
    /\ remote' = remote + 1
    /\ UNCHANGED << cache, fetches, session, rendered, failed >>

\* The server process restarts: its cache and its sessions are gone.
ProcessStart ==
    /\ cache = << >>
    /\ fetches = 0
    /\ session = << >>
    /\ rendered = << >>
    /\ failed = FALSE

Restart ==
    /\ ~ProcessStart
    /\ cache' = << >>
    /\ fetches' = 0
    /\ session' = << >>
    /\ rendered' = << >>
    /\ failed' = FALSE
    /\ remote' = remote

Next ==
    \/ OpenPage
    \/ FetchFails
    \/ SetStartDate
    \/ SetEndDate
    \/ SelectProductLine
    \/ SelectCountry
    \/ SelectStatus
    \/ ToggleCombine
    \/ RemoteUpdated
    \/ Restart

Spec == Init /\ [][Next]_vars

\* ------------------------------------------------------------ properties
\* Helpers of the properties, written without the operators of the model.
Rendered == rendered # << >>
Page == rendered[1]
Widgets == session[1]

\* The sum of SALES over the rows of T at the positions S.
RECURSIVE SumAt(_, _)
SumAt(T, S) ==
    IF S = {} THEN 0
    ELSE LET i == CHOOSE i \in S : TRUE IN T[i].SALES + SumAt(T, S \ {i})

\* out holds exactly the rows of T at the positions keep, in T's order.
IsSelection(out, T, keep) ==
    /\ Len(out) = Cardinality(keep)
    /\ \A j \in DOMAIN out :
          \E i \in keep :
              /\ Cardinality({ k \in keep : k <= i }) = j
              /\ out[j] = T[i]

\* The place of x in the ascending pool.
Rank(pool, x) == CHOOSE i \in DOMAIN pool : pool[i] = x

IsNumber(v, n) == v.type \in { "int", "float" } /\ v.val = n

\* The rows a categorical selection admits: all when nothing is selected.
Admits(values, x) == values = {} \/ x \in values

\* C1: when the filtered table has no rows, calculate_kpis returns zero
\* valued metrics: total_sales = 0, total_orders = 0,
\* avg_sales_per_order = 0 and unique_customers = 0.
C1_EmptyTableZeroKpis ==
    (Rendered /\ Page.filtered_data = << >>) =>
        \A k \in 1..4 : IsNumber(Page.kpis[k], 0)

\* C2: in every render start_date <= end_date, the end-date control's
\* minimum is the current start-date value and the start-date control's
\* maximum is the current end-date value.
C2_DateControlsBoundEachOther ==
    Rendered =>
        /\ Page.start_date <= Page.end_date
        /\ Widgets.end.min_value = Page.start_date
        /\ Widgets.start.max_value = Page.end_date

\* C3: within one process load_data fetches the CSV at most once: once a
\* table is cached, every later run is handed that table and fetches
\* nothing, until the process restarts.
C3_LoadedOncePerProcess ==
    [][ /\ fetches' <= 1
        /\ (cache # << >> /\ ~ProcessStart') =>
              /\ fetches' = fetches
              /\ Rendered' /\ Page'.data = cache[1] ]_vars

C3_Witness ==
    /\ Rendered
    /\ fetches = 1
    /\ Revisions[remote] # cache[1]
    /\ Page.data = cache[1]
    /\ Widgets.countries # {}

\* One application of filter_data in a render: its table, column, inclusion
\* list and result.
FilterSteps ==
    { << Page.by_date, "PRODUCTLINE", Widgets.product_lines, Page.by_product_line >>,
      << Page.by_product_line, "COUNTRY", Widgets.countries, Page.by_country >>,
      << Page.by_country, "STATUS", Widgets.statuses, Page.filtered_data >> }

\* C4: filter_data(T, col, L) returns all rows of T when L is empty, and
\* when L is not empty exactly the rows of T whose col value is in L: none
\* other, and none of them dropped.
C4_FilterDataContract ==
    Rendered =>
        \A f \in FilterSteps :
            /\ f[3] = {} => f[4] = f[1]
            /\ f[3] # {} =>
                  IsSelection(f[4], f[1], { i \in DOMAIN f[1] : f[1][i][f[2]] \in f[3] })

C4_Witness ==
    /\ Rendered
    /\ Widgets.countries = {}
    /\ Page.by_country = Page.by_product_line
    /\ Widgets.product_lines # {}
    /\ Page.by_product_line # << >>
    /\ Len(Page.by_product_line) < Len(Page.by_date)

\* C5: the KPI aggregator returns exact numbers, not formatted strings:
\* total_sales is the sum of SALES over the rows and avg_sales_per_order is
\* total_sales divided by the number of distinct order numbers.
C5_KpisAreExactNumbers ==
    Rendered =>
        LET T == Page.filtered_data
            orders == Cardinality({ T[i].ORDERNUMBER : i \in DOMAIN T })
        IN  /\ IsNumber(Page.kpis[1], SumAt(T, DOMAIN T))
            /\ Page.kpis[3].type = "float"
            /\ orders > 0 => Page.kpis[3].val * orders = SumAt(T, DOMAIN T)

\* The positions of data that pass the date range and the first n of the
\* three selections (product lines, countries, statuses).
PassesFirst(n) ==
    { i \in DOMAIN Page.data :
        /\ Page.start_date <= Page.data[i].ORDERDATE
        /\ Page.data[i].ORDERDATE <= Page.end_date
        /\ n >= 1 => Admits(Widgets.product_lines, Page.data[i].PRODUCTLINE)
        /\ n >= 2 => Admits(Widgets.countries, Page.data[i].COUNTRY)
        /\ n >= 3 => Admits(Widgets.statuses, Page.data[i].STATUS) }

\* C6: the date filter keeps exactly the rows with start_date <= order date
\* <= end_date, both ends included, and runs first; the product-line,
\* country and status filters follow in that order, each on the output of
\* the step before.
C6_DateFilterInclusiveAndFirst ==
    Rendered =>
        /\ IsSelection(Page.by_date, Page.data, PassesFirst(0))
        /\ IsSelection(Page.by_product_line, Page.data, PassesFirst(1))
        /\ IsSelection(Page.by_country, Page.data, PassesFirst(2))
        /\ IsSelection(Page.filtered_data, Page.data, PassesFirst(3))

C6_Witness ==
    /\ Rendered
    /\ Page.start_date < Page.end_date
    /\ \E i \in DOMAIN Page.filtered_data :
          Page.filtered_data[i].ORDERDATE = Page.start_date
    /\ \E i \in DOMAIN Page.filtered_data :
          Page.filtered_data[i].ORDERDATE = Page.end_date
    /\ \E i \in DOMAIN Page.data : Page.data[i].ORDERDATE < Page.start_date
    /\ \E i \in DOMAIN Page.data : Page.data[i].ORDERDATE > Page.end_date
    /\ Len(Page.by_product_line) < Len(Page.by_date)
    /\ Len(Page.by_country) < Len(Page.by_product_line)
    /\ Len(Page.filtered_data) < Len(Page.by_country)

\* The positions of T whose column col holds x.
Where(T, col, x) == { i \in DOMAIN T : T[i][col] = x }

\* t has one entry per value of col in T, carrying that value's summed SALES.
IsGrouping(t, T, col) ==
    /\ \A j \in DOMAIN t :
          /\ Where(T, col, t[j].key) # {}
          /\ t[j].SALES = SumAt(T, Where(T, col, t[j].key))
    /\ \A j, k \in DOMAIN t : j # k => t[j].key # t[k].key

\* The summed SALES of each customer of the filtered table.
CustomerSum(c) ==
    SumAt(Page.filtered_data, Where(Page.filtered_data, "CUSTOMERNAME", c))
Customers == { Page.filtered_data[i].CUSTOMERNAME : i \in DOMAIN Page.filtered_data }

\* The top-customers table is a prefix of min(10, customers) entries of an
\* ordering of all customers that is descending by summed sales.
TopCustomersRanked ==
    LET t == Page.charts.top_customers
    IN  /\ Len(t) = IF Cardinality(Customers) < TopN THEN Cardinality(Customers) ELSE TopN
        /\ IsGrouping(t, Page.filtered_data, "CUSTOMERNAME")
        /\ \A j, k \in DOMAIN t : j < k => t[j].SALES >= t[k].SALES
        /\ \A c \in Customers \ { t[j].key : j \in DOMAIN t } :
              \A j \in DOMAIN t : t[j].SALES >= CustomerSum(c)

\* C7 as stated: at most 10 entries, one per customer with the customer's
\* summed sales, descending by sum with equal sums in ascending order of
\* customer name, the first 10 entries of that ordering of all customers.
C7_TopCustomersTiesByName ==
    Rendered =>
        LET t == Page.charts.top_customers
        IN  /\ TopCustomersRanked
            /\ \A j, k \in DOMAIN t :
                  (j < k /\ t[j].SALES = t[k].SALES) =>
                      Rank(CustomerNames, t[j].key) < Rank(CustomerNames, t[k].key)
            /\ \A c \in Customers \ { t[j].key : j \in DOMAIN t } :
                  \A j \in DOMAIN t :
                      t[j].SALES = CustomerSum(c) =>
                          Rank(CustomerNames, t[j].key) < Rank(CustomerNames, c)

\* C7, amended: at most 10 entries, one per customer with the customer's
\* summed sales, descending by sum, the first 10 entries of such an ordering
\* of all customers; the order of customers with equal sums is not fixed.
C7_TopCustomersDescending == Rendered => TopCustomersRanked

C7_Witness ==
    /\ Rendered
    /\ Cardinality(Customers) > TopN
    /\ Len(Page.charts.top_customers) = TopN
    /\ \E c \in Customers : Cardinality(Where(Page.filtered_data, "CUSTOMERNAME", c)) > 1
    /\ \E j \in 1..(TopN - 1) :
          /\ Page.charts.top_customers[j].SALES = Page.charts.top_customers[j + 1].SALES
          /\ Rank(CustomerNames, Page.charts.top_customers[j].key)
               > Rank(CustomerNames, Page.charts.top_customers[j + 1].key)

\* points holds one point per value of the ORDERDATE column of the rows of T
\* at the positions S, carrying the summed SALES of that date's rows.
IsDailySeries(points, T, S) ==
    LET dates == { T[i].ORDERDATE : i \in S }
    IN  /\ Len(points) = Cardinality(dates)
        /\ \A d \in dates :
              \E j \in DOMAIN points :
                  points[j] = << d, SumAt(T, { i \in S : T[i].ORDERDATE = d }) >>

\* C8: with the toggle on, the series handed to the area chart has one value
\* per order date, the sum of SALES of the filtered rows of that date; with
\* it off, one value per (order date, product line), the sum over the pair's
\* rows.
C8_AreaSeriesSummedPerDate ==
    Rendered =>
        LET T == Page.filtered_data
            fig == Page.charts.fig
        IN  IF Widgets.combine
            THEN \A trace \in fig : IsDailySeries(trace.points, T, DOMAIN T)
            ELSE \A trace \in fig :
                     IsDailySeries(trace.points, T, Where(T, "PRODUCTLINE", trace.name))

\* C9: no render changes the table load_data holds: while it is cached it
\* keeps the rows it was loaded with, and every render works on that table,
\* whatever was filtered before.
C9_LoadedTableNeverMutated ==
    [][ (cache # << >> /\ cache' # << >>) =>
            /\ cache' = cache
            /\ Rendered' /\ Page'.data = cache'[1]
            /\ IsSelection(Page'.filtered_data, cache[1], PassesFirst(3)') ]_vars

C9_Witness ==
    /\ Rendered
    /\ cache # << >>
    /\ \E r \in 1..Len(Revisions) : cache[1] = Revisions[r]
    /\ Len(Page.filtered_data) < Len(cache[1])
    /\ Widgets.statuses # {}
    /\ Widgets.start.state # Widgets.start.value

\* C10: the totals-by-product-line table has exactly one entry per product
\* line present in the filtered table, with that line's summed sales, none
\* cut off, in ascending order of product-line name.
C10_TotalsByProductLine ==
    Rendered =>
        LET t == Page.charts.total_sales_by_product_line
            T == Page.filtered_data
        IN  /\ Len(t) = Cardinality({ T[i].PRODUCTLINE : i \in DOMAIN T })
            /\ IsGrouping(t, T, "PRODUCTLINE")
            /\ \A j, k \in DOMAIN t :
                  j < k => Rank(ProductLines, t[j].key) < Rank(ProductLines, t[k].key)

\* Three product lines whose sums are not in the order of their names.
C10_Witness ==
    /\ Rendered
    /\ Len(Page.charts.total_sales_by_product_line) = Len(ProductLines)
    /\ Len(Page.filtered_data) > Len(ProductLines)
    /\ \E j \in 1..(Len(ProductLines) - 1) :
          Page.charts.total_sales_by_product_line[j].SALES
              > Page.charts.total_sales_by_product_line[j + 1].SALES
    /\ \E j \in 1..(Len(ProductLines) - 1) :
          Page.charts.total_sales_by_product_line[j].SALES
              < Page.charts.total_sales_by_product_line[j + 1].SALES

=============================================================================
